---- MODULE Spec2Model ----
(***************************************************************************)
(* The ingredient-classification engine of halal-recipe-backend:           *)
(*   utils/halalEngine.js     knowledge base, normalizer, inheritance      *)
(*                            resolver, policy adjustment, lookup table    *)
(*   utils/halalConverter.js  detector, converter, scorer, convertRecipe   *)
(*                            (src/unnamed/part_000, lines 251-596)        *)
(* A JavaScript string is a sequence of one-character strings.  An         *)
(* optional value (null / undefined) is a sequence of length 0 or 1.       *)
(***************************************************************************)
EXTENDS Integers, Sequences, FiniteSets, TLC

Null == <<>>
Some(v) == <<v>>
IsNull(m) == m = <<>>
Val(m) == m[1]

(***************************************************************************)
(* Characters and the String.prototype methods the engine uses.            *)
(***************************************************************************)
LowerCase ==
  <<"a","b","c","d","e","f","g","h","i","j","k","l","m",
    "n","o","p","q","r","s","t","u","v","w","x","y","z">>
UpperCase ==
  <<"A","B","C","D","E","F","G","H","I","J","K","L","M",
    "N","O","P","Q","R","S","T","U","V","W","X","Y","Z">>
Digits == {"0","1","2","3","4","5","6","7","8","9"}
WhiteSpace == {" ", "\t", "\n"}

Range(s) == { s[i] : i \in DOMAIN s }
LowerSet == Range(LowerCase)
UpperSet == Range(UpperCase)
IsLower(c) == c \in LowerSet
IsUpper(c) == c \in UpperSet
WordChars == LowerSet \cup UpperSet \cup Digits \cup {"_"}
\* \w of a JavaScript regular expression
IsWordChar(c) == c \in WordChars

LowerMap == [c \in UpperSet |-> LowerCase[CHOOSE i \in DOMAIN UpperCase : UpperCase[i] = c]]
UpperMap == [c \in LowerSet |-> UpperCase[CHOOSE i \in DOMAIN LowerCase : LowerCase[i] = c]]
LowerOf(c) == IF c \in UpperSet THEN LowerMap[c] ELSE c
UpperOf(c) == IF c \in LowerSet THEN UpperMap[c] ELSE c
\* a function over 1..n as the sequence it is
AsSeq(f) == f \o <<>>
toLowerCase(s) == AsSeq([i \in DOMAIN s |-> LowerOf(s[i])])
toUpperCase(s) == AsSeq([i \in DOMAIN s |-> UpperOf(s[i])])

RECURSIVE trimStart(_)
trimStart(s) == IF s # <<>> /\ Head(s) \in WhiteSpace THEN trimStart(Tail(s)) ELSE s
RECURSIVE trimEnd(_)
trimEnd(s) ==
  IF s # <<>> /\ s[Len(s)] \in WhiteSpace THEN trimEnd(SubSeq(s, 1, Len(s) - 1)) ELSE s
\* a trim that leaves the string as it is
trimNothing(s) == s

trim(s) == trimEnd(trimStart(s))

\* s.includes(sub)
includes(s, sub) ==
  \E i \in 1..(Len(s) - Len(sub) + 1) : SubSeq(s, i, i + Len(sub) - 1) = sub

\* s.replace(/\s+/g, "_")
RECURSIVE replaceSpaceRuns(_)
replaceSpaceRuns(s) ==
  IF s = <<>> THEN <<>>
  ELSE IF Head(s) \in WhiteSpace
       THEN <<"_">> \o replaceSpaceRuns(trimStart(s))
       ELSE <<Head(s)>> \o replaceSpaceRuns(Tail(s))

\* s.replace(/_/g, " ")
underscoresToSpaces(s) == AsSeq([i \in DOMAIN s |-> IF s[i] = "_" THEN " " ELSE s[i]])

\* the character class of s.replace(/[^a-z0_9]/g, ""): a to z, "0", "_", "9"
KeptChars == LowerSet \cup {"0", "_", "9"}
KeptByNormalize(c) == c \in KeptChars

\* a value that is not a string (a number, an object) where a string is expected
NonString == <<"<non-string>">>
IsString(x) == x # NonString

\* the last replace without its g flag: only the first character outside the
\* class is removed
RECURSIVE removeFirstOther(_)
removeFirstOther(s) ==
  IF s = <<>> THEN <<>>
  ELSE IF ~KeptByNormalize(Head(s)) THEN Tail(s)
       ELSE <<Head(s)>> \o removeFirstOther(Tail(s))
normalizeFirstOnly(name) ==
  IF name = <<>> \/ ~IsString(name) THEN <<>>
  ELSE removeFirstOther(replaceSpaceRuns(trim(toLowerCase(name))))

normalizeIngredientName(name) ==
  IF name = <<>> \/ ~IsString(name) THEN <<>>
  ELSE SelectSeq(replaceSpaceRuns(trim(toLowerCase(name))), KeptByNormalize)

(***************************************************************************)
(* new RegExp(`\\b${escaped}\\b`, "gi"): a literal, case-insensitive,      *)
(* whole-word match of term.                                               *)
(***************************************************************************)
WordAt(text, i) == i >= 1 /\ i <= Len(text) /\ IsWordChar(text[i])
\* \b between positions p - 1 and p
Boundary(text, p) == WordAt(text, p - 1) # WordAt(text, p)
\* the pattern without its two \b: term matches inside a longer word too
MatchAtAnywhere(text, term, i) ==
  /\ i >= 1
  /\ i + Len(term) - 1 <= Len(text)
  /\ \A k \in DOMAIN term : LowerOf(text[i + k - 1]) = LowerOf(term[k])
MatchAt(text, term, i) ==
  /\ i >= 1
  /\ i + Len(term) - 1 <= Len(text)
  /\ \A k \in DOMAIN term : LowerOf(text[i + k - 1]) = LowerOf(term[k])
  /\ Boundary(text, i)
  /\ Boundary(text, i + Len(term))
\* regex.test(text)
RegexTest(text, term) == \E i \in 1..(Len(text) - Len(term) + 1) : MatchAt(text, term, i)

(***************************************************************************)
(* The knowledge base (data/halal_knowledge.json once parsed) is the       *)
(* sequence of its entries in Object.entries order.  An entry is           *)
(*   [key, status, aliases, inheritance, alternatives, tags, category,     *)
(*    confidence_score_base]                                               *)
(* with tags Null when the JSON record has no tags field, and              *)
(* confidence_score_base in tenths (0 when the field is absent).           *)
(***************************************************************************)
Keys(kb) == { kb[i].key : i \in DOMAIN kb }
Min(S) == CHOOSE x \in S : \A y \in S : x <= y
\* knowledge[normalized]: the index of the entry, 0 when undefined
IndexOfKey(kb, normalized) ==
  IF normalized \in Keys(kb) THEN CHOOSE i \in DOMAIN kb : kb[i].key = normalized ELSE 0
\* the first entry, in Object.entries order, whose aliases include normalized
AliasOwners(kb, normalized) == { i \in DOMAIN kb : normalized \in Range(kb[i].aliases) }

\* the JSON file on disk: Null when it is missing or does not parse
readKnowledgeFile(file) == file

\* a catch block that falls back on a built-in entry instead of {}
loadHalalKnowledgeBuiltIn(halalKnowledge, file) ==
  IF ~IsNull(halalKnowledge) THEN halalKnowledge
  ELSE IF IsNull(readKnowledgeFile(file))
  THEN Some(<<[key |-> <<"b","a","c","o","n">>, status |-> "haram", aliases |-> <<>>,
               inheritance |-> <<>>, alternatives |-> <<>>, tags |-> Null,
               category |-> "meat", confidence_score_base |-> 1]>>)
  ELSE Some(Val(readKnowledgeFile(file)))

\* a cache test that takes an empty knowledge base for "not loaded yet"
loadHalalKnowledgeRetry(halalKnowledge, file) ==
  IF ~IsNull(halalKnowledge) /\ halalKnowledge # Some(<<>>) THEN halalKnowledge
  ELSE IF IsNull(readKnowledgeFile(file)) THEN Some(<<>>)
  ELSE Some(Val(readKnowledgeFile(file)))

loadHalalKnowledge(halalKnowledge, file) ==
  IF ~IsNull(halalKnowledge) THEN halalKnowledge
  ELSE IF IsNull(readKnowledgeFile(file)) THEN Some(<<>>)
  ELSE Some(Val(readKnowledgeFile(file)))

\* a cycle guard that never reports a name as visited
VisitedHasNever(visited, normalized) == FALSE

\* visited.has(normalized)
VisitedHas(visited, normalized) == normalized \in visited

RECURSIVE resolveInheritance(_, _, _)
RECURSIVE resolveParents(_, _, _)
\* for (const parent of inheritance) { ... if (haramSource) return haramSource; }
resolveParents(kb, parents, visited) ==
  IF parents = <<>> THEN Null
  ELSE LET haramSource == resolveInheritance(kb, Head(parents), visited)
       IN  IF ~IsNull(haramSource) THEN haramSource
           ELSE resolveParents(kb, Tail(parents), visited)

resolveInheritance(kb, ingredientName, visited) ==
  LET normalized == normalizeIngredientName(ingredientName) IN
  IF VisitedHas(visited, normalized) THEN Null
  ELSE
    LET visited2 == visited \cup {normalized}
        idx == IndexOfKey(kb, normalized)
        owners == AliasOwners(kb, normalized)
    IN  IF idx = 0
        THEN IF owners = {} THEN Null
             ELSE LET mainEntry == kb[Min(owners)] IN
                  IF mainEntry.status = "haram" THEN Some(mainEntry.key)
                  ELSE resolveParents(kb, mainEntry.inheritance, visited2)
        ELSE IF kb[idx].status = "haram" THEN Some(normalized)
             ELSE resolveParents(kb, kb[idx].inheritance, visited2)

(***************************************************************************)
(* HALAL_RULES of utils/halalRules.js, a file that is not part of the      *)
(* sources at hand: a strictness-keyed table for the tags gelatin_unknown  *)
(* and alcohol_trace and a school-keyed table for seafood_shellfish.  The  *)
(* rows below cover every kind of cell the engine distinguishes: a status, *)
(* "conditional", "questionable" and an absent cell ("").                  *)
(***************************************************************************)
HALAL_RULES ==
  [strictness |->
     [flexible |-> [gelatin_unknown |-> "halal",        alcohol_trace |-> ""],
      standard |-> [gelatin_unknown |-> "questionable", alcohol_trace |-> "conditional"],
      strict   |-> [gelatin_unknown |-> "haram",        alcohol_trace |-> "haram"]],
   madhab |->
     [hanafi |-> [seafood_shellfish |-> "haram"],
      shafii |-> [seafood_shellfish |-> "halal"],
      maliki |-> [seafood_shellfish |-> ""]]]

\* table[row]?.[tag], "" when the row or the cell is undefined
RuleCell(table, row, tag) == IF row \in DOMAIN table THEN table[row][tag] ELSE ""

\* a || b || dflt on strings ("" is falsy)
OrElse(a, b, dflt) == IF a # "" THEN a ELSE IF b # "" THEN b ELSE dflt

\* userPreferences = {} when the argument is undefined
NoPreferences == [schoolOfThought |-> "", madhab |-> "", strictnessLevel |-> "", strictness |-> ""]

\* lines 143-156: the tags used for this call
inferTags(entry, normalized) ==
  (IF entry.category = "animal-derived" \/ normalized = <<"g","e","l","a","t","i","n">>
     THEN <<"gelatin_unknown">> ELSE <<>>)
  \o (IF includes(normalized, <<"v","a","n","i","l","l","a">>)
         \/ includes(normalized, <<"e","x","t","r","a","c","t">>)
        THEN <<"alcohol_trace">> ELSE <<>>)
  \o (IF includes(normalized, <<"s","h","e","l","l","f","i","s","h">>)
         \/ includes(normalized, <<"s","h","r","i","m","p">>)
         \/ includes(normalized, <<"l","o","b","s","t","e","r">>)
        THEN <<"seafood_shellfish">> ELSE <<>>)

\* const tags = entry.tags || []; if (tags.length === 0) { tags.push(...) }
tagsOf(entry, normalized) ==
  IF IsNull(entry.tags) \/ Val(entry.tags) = <<>> THEN inferTags(entry, normalized)
  ELSE Val(entry.tags)

\* what the pushes leave in entry.tags: tags is entry.tags itself when the
\* entry has a tags array, and a fresh array only when it has none
tagsAfter(entry, normalized) ==
  IF IsNull(entry.tags) THEN Null ELSE Some(tagsOf(entry, normalized))

\* a strictness rule that stores the cell as it is, "questionable" included
applyStrictnessRuleRaw(adjustedStatus, tags, strictness, tag) ==
  IF tag \in Range(tags) /\ RuleCell(HALAL_RULES.strictness, strictness, tag) \notin {"", "conditional"}
  THEN RuleCell(HALAL_RULES.strictness, strictness, tag)
  ELSE adjustedStatus

\* lines 166-172 and 174-180: one strictness rule
applyStrictnessRule(adjustedStatus, tags, strictness, tag) ==
  LET ruleStatus == RuleCell(HALAL_RULES.strictness, strictness, tag) IN
  IF tag \in Range(tags) /\ ruleStatus # "" /\ ruleStatus # "conditional"
  THEN IF ruleStatus = "questionable" THEN "conditional" ELSE ruleStatus
  ELSE adjustedStatus

\* the adjustment without the test of line 164: every raw status is adjusted
adjustStatusUnguarded(status, tags, userPreferences) ==
  LET madhab == OrElse(userPreferences.schoolOfThought, userPreferences.madhab, "no-preference")
      strictness == OrElse(userPreferences.strictnessLevel, userPreferences.strictness, "standard")
      rule == RuleCell(HALAL_RULES.madhab, madhab, "seafood_shellfish")
  IN  IF madhab # "no-preference" /\ "seafood_shellfish" \in Range(tags) /\ rule # ""
      THEN rule
      ELSE applyStrictnessRule(applyStrictnessRule(status, tags, strictness, "gelatin_unknown"),
                               tags, strictness, "alcohol_trace")

\* the adjustment with the school rule applied before the strictness rules
adjustStatusSchoolFirst(status, tags, userPreferences) ==
  LET madhab == OrElse(userPreferences.schoolOfThought, userPreferences.madhab, "no-preference")
      strictness == OrElse(userPreferences.strictnessLevel, userPreferences.strictness, "standard")
      rule == RuleCell(HALAL_RULES.madhab, madhab, "seafood_shellfish")
      s0 == IF madhab # "no-preference" /\ "seafood_shellfish" \in Range(tags) /\ rule # ""
            THEN rule ELSE status
  IN  IF status = "conditional" \/ status = "unknown"
      THEN applyStrictnessRule(applyStrictnessRule(s0, tags, strictness, "gelatin_unknown"),
                               tags, strictness, "alcohol_trace")
      ELSE status

\* lines 159-187
adjustStatus(status, tags, userPreferences) ==
  LET madhab == OrElse(userPreferences.schoolOfThought, userPreferences.madhab, "no-preference")
      strictness == OrElse(userPreferences.strictnessLevel, userPreferences.strictness, "standard")
      s1 == applyStrictnessRule(status, tags, strictness, "gelatin_unknown")
      s2 == applyStrictnessRule(s1, tags, strictness, "alcohol_trace")
      rule == RuleCell(HALAL_RULES.madhab, madhab, "seafood_shellfish")
  IN  IF status = "conditional" \/ status = "unknown"
      THEN IF madhab # "no-preference" /\ "seafood_shellfish" \in Range(tags) /\ rule # ""
           THEN rule ELSE s2
      ELSE status

\* the status getIngredientDetails reports for an entry (line 192)
finalStatus(entry, normalized, userPreferences) ==
  adjustStatus(entry.status, tagsOf(entry, normalized), userPreferences)

severityOf(entry) ==
  IF entry.confidence_score_base = 1 THEN "high"
  ELSE IF entry.confidence_score_base = 5 THEN "medium" ELSE "low"

\* lines 133-141
traceOf(entry, haramSource) ==
  IF entry.inheritance # <<>>
  THEN <<"inherits">> \o (IF ~IsNull(haramSource) THEN <<"ultimate source">> ELSE <<>>)
  ELSE IF entry.status = "haram" THEN <<"explicitly haram">> ELSE <<>>

(***************************************************************************)
(* getIngredientDetails(ingredientName, userPreferences) on the cached     *)
(* knowledge halalKnowledge.  The value is                                 *)
(*   [threw, details, knowledge]                                           *)
(* threw: a TypeError leaves the function (userPreferences is null, read   *)
(* at line 160); details: Null for an unknown ingredient; knowledge: the   *)
(* cache after the call, with the tags the call pushed into the entry.     *)
\* lines 110-127: the place in the knowledge of the entry a name stands
\* for, its own key first and then the first entry listing it as an alias;
\* 0 when there is none
entryIndex(kb, normalized) ==
  IF IndexOfKey(kb, normalized) # 0 THEN IndexOfKey(kb, normalized)
  ELSE IF AliasOwners(kb, normalized) # {} THEN Min(AliasOwners(kb, normalized))
  ELSE 0

\* the knowledge once the pushes of lines 147-155 reached entry idx
pushTags(kb, idx, normalized) ==
  [kb EXCEPT ![idx].tags = tagsAfter(kb[idx], normalized)]

\* lines 189-205: the object returned for an entry
detailsOf(entry, ingredientName, normalized, haramSource, userPreferences) ==
  [name |-> normalized,
   displayName |-> ingredientName,
   status |-> finalStatus(entry, normalized, userPreferences),
   originalStatus |-> entry.status,
   alternatives |-> entry.alternatives,
   inheritedFrom |-> haramSource,
   trace |-> traceOf(entry, haramSource),
   severity |-> severityOf(entry),
   confidenceScore |->
     IF entry.confidence_score_base = 0 THEN 5 ELSE entry.confidence_score_base]

\* lines 129-205 for the entry at idx
detailsAt(knowledge, idx, ingredientName, normalized, userPreferences) ==
  IF idx = 0 THEN [threw |-> FALSE, details |-> Null, knowledge |-> knowledge]
  ELSE IF IsNull(userPreferences)
  THEN [threw |-> TRUE, details |-> Null,
        knowledge |-> Some(pushTags(Val(knowledge), idx, normalized))]
  ELSE [threw |-> FALSE,
        details |-> Some(detailsOf(Val(knowledge)[idx], ingredientName, normalized,
                                   resolveInheritance(Val(knowledge), normalized, {}),
                                   Val(userPreferences))),
        knowledge |-> Some(pushTags(Val(knowledge), idx, normalized))]

\* lines 110-205 on the loaded knowledge
lookupIngredient(knowledge, ingredientName, normalized, userPreferences) ==
  detailsAt(knowledge, entryIndex(Val(knowledge), normalized), ingredientName,
            normalized, userPreferences)

(***************************************************************************)
getIngredientDetails(halalKnowledge, file, ingredientName, userPreferences) ==
  lookupIngredient(loadHalalKnowledge(halalKnowledge, file), ingredientName,
                   normalizeIngredientName(ingredientName), userPreferences)

\* buildIngredientLookup(): [threw, lookup, knowledge]; name.toLowerCase()
\* throws for an alias that is not a string
buildIngredientLookup(halalKnowledge, file) ==
  LET knowledge == loadHalalKnowledge(halalKnowledge, file)
      kb == Val(knowledge)
      itemsOf(entry) ==
        LET allNames == <<entry.key>> \o entry.aliases IN
        AsSeq([i \in DOMAIN allNames |->
                 [searchTerm |-> underscoresToSpaces(toLowerCase(allNames[i])),
                  normalizedKey |-> entry.key]])
      F[i \in 0..Len(kb)] == IF i = 0 THEN <<>> ELSE F[i - 1] \o itemsOf(kb[i])
  IN  IF \E i \in DOMAIN kb : \E j \in DOMAIN kb[i].aliases : ~IsString(kb[i].aliases[j])
      THEN [threw |-> TRUE, lookup |-> <<>>, knowledge |-> knowledge]
      ELSE [threw |-> FALSE, lookup |-> F[Len(kb)], knowledge |-> knowledge]

(***************************************************************************)
(* utils/halalConverter.js: detector, converter, scorer.                   *)
(* A string literal that the code only compares or passes on is a          *)
(* one-element sequence holding the literal.                               *)
(***************************************************************************)
HalalAlternativeNeeded == <<"Halal alternative needed">>
NoReplacementAvailable == <<"No replacement available">>

\* loadIngredientList(): [list, knowledge]; the cached list when there is one,
\* [] when buildIngredientLookup throws
loadIngredientList(ingredientList, halalKnowledge, file) ==
  IF ~IsNull(ingredientList)
  THEN [list |-> ingredientList, knowledge |-> halalKnowledge]
  ELSE LET built == buildIngredientLookup(halalKnowledge, file) IN
       [list |-> Some(IF built.threw THEN <<>> ELSE built.lookup),
        knowledge |-> built.knowledge]

\* details.alternatives?.[0] || null
firstAlternative(alternatives) ==
  IF alternatives = <<>> \/ Head(alternatives) = <<>> THEN Null ELSE Some(Head(alternatives))

\* a status test that lets every status through
isReportedWhatever(status) == TRUE

\* the status test of line 317
isReported(status) == status = "haram" \/ status = "conditional"

\* lines 318-336
detectionOf(item, details) ==
  [ingredient |-> item.searchTerm,
   normalizedName |-> item.normalizedKey,
   haramIngredient |-> IF details.displayName # <<>> THEN details.displayName ELSE item.searchTerm,
   replacement |-> firstAlternative(details.alternatives),
   alternatives |-> details.alternatives,
   severity |-> details.severity,
   confidence |-> details.confidenceScore,
   inheritedFrom |-> details.inheritedFrom,
   trace |-> details.trace,
   status |-> details.status,
   matchedTerm |-> item.searchTerm]

\* lines 309-338: what a matched term leaves in the accumulated
\* [threw, detected, processed, knowledge, list], got being what
\* getIngredientDetails returned for it
recordMatch(acc, item, got) ==
  IF got.threw
  THEN [acc EXCEPT !.threw = TRUE, !.processed = @ \cup {item.normalizedKey},
                   !.knowledge = got.knowledge]
  ELSE [acc EXCEPT
          !.processed = @ \cup {item.normalizedKey},
          !.knowledge = got.knowledge,
          !.detected =
            IF ~IsNull(got.details) /\ isReported(Val(got.details).status)
            THEN @ \o <<detectionOf(item, Val(got.details))>> ELSE @]

\* a turn that does not look at processed: every matching term is looked up
detectStepEveryTerm(acc, item, recipeText, file, userPreferences) ==
  IF acc.threw \/ ~RegexTest(recipeText, item.searchTerm)
  THEN acc
  ELSE recordMatch(acc, item,
         getIngredientDetails(acc.knowledge, file, item.searchTerm, userPreferences))

\* one turn of lookupList.forEach (lines 299-340)
detectStep(acc, item, recipeText, file, userPreferences) ==
  IF acc.threw \/ ~RegexTest(recipeText, item.searchTerm)
     \/ item.normalizedKey \in acc.processed
  THEN acc
  ELSE recordMatch(acc, item,
         getIngredientDetails(acc.knowledge, file, item.searchTerm, userPreferences))

\* lookupList.forEach over the first n items (lines 299-340)
RECURSIVE forEachLookup(_, _, _, _, _, _)
forEachLookup(lookupList, n, acc, recipeText, file, userPreferences) ==
  IF n = 0 THEN acc
  ELSE detectStep(forEachLookup(lookupList, n - 1, acc, recipeText, file, userPreferences),
                  lookupList[n], recipeText, file, userPreferences)

\* lines 296-342 on what loadIngredientList returned
detectIn(loaded, recipeText, file, userPreferences) ==
  forEachLookup(Val(loaded.list), Len(Val(loaded.list)),
                [threw |-> FALSE, detected |-> <<>>, processed |-> {},
                 knowledge |-> loaded.knowledge, list |-> loaded.list],
                recipeText, file, userPreferences)

\* detectHaramIngredients(recipeText, userPreferences):
\* [threw, detected, processed, knowledge, list]
detectHaramIngredients(ingredientList, halalKnowledge, file, recipeText, userPreferences) ==
  IF recipeText = <<>> \/ ~IsString(recipeText)
  THEN [threw |-> FALSE, detected |-> <<>>, processed |-> {},
        knowledge |-> halalKnowledge, list |-> ingredientList]
  ELSE detectIn(loadIngredientList(ingredientList, halalKnowledge, file),
                recipeText, file, userPreferences)

\* lines 405-410: the alternative in the case pattern of the matched run
preserveCase(match, replacement) ==
  IF match = toUpperCase(match) THEN toUpperCase(replacement)
  ELSE IF match[1] = UpperOf(match[1])
       THEN <<UpperOf(replacement[1])>> \o Tail(replacement)
       ELSE replacement

\* convertedText.replace(regex, callback) from position i on: leftmost matches,
\* none overlapping, each tested against the whole text
RECURSIVE replaceFrom(_, _, _, _)
replaceFrom(text, i, term, replacement) ==
  IF i > Len(text) THEN <<>>
  ELSE IF term # <<>> /\ MatchAt(text, term, i)
       THEN preserveCase(SubSeq(text, i, i + Len(term) - 1), replacement)
            \o replaceFrom(text, i + Len(term), term, replacement)
       ELSE <<text[i]>> \o replaceFrom(text, i + 1, term, replacement)

\* the test of lines 379-381 without its trim: a blank alternative counts
hasReplacementUntrimmed(replacement) ==
  /\ ~IsNull(replacement)
  /\ Val(replacement) # HalalAlternativeNeeded
  /\ Val(replacement) # <<>>

\* lines 379-381
hasReplacement(replacement) ==
  /\ ~IsNull(replacement)
  /\ Val(replacement) # HalalAlternativeNeeded
  /\ trim(Val(replacement)) # <<>>

\* a turn that does not look at wasReplaced: an ingredient with an alternative
\* is recorded as replaced whether or not the pattern matched
convertStepUnchecked(acc, item) ==
  IF acc.threw THEN acc
  ELSE IF ~IsNull(item.replacement) /\ ~IsString(Val(item.replacement))
  THEN [acc EXCEPT !.threw = TRUE]
  ELSE IF ~hasReplacement(item.replacement)
  THEN [acc EXCEPT !.unresolved =
          @ \o <<[ingredient |-> item.ingredient, status |-> item.status]>>]
  ELSE [acc EXCEPT
          !.convertedText = replaceFrom(@, 1, item.ingredient, Val(item.replacement)),
          !.replacements =
             @ \o <<[original |-> item.ingredient, replacement |-> Val(item.replacement),
                     status |-> item.status]>>]

\* one turn of detectedIngredients.forEach (lines 373-429) on the accumulated
\* [threw, convertedText, replacements, unresolved]; replacement.trim() throws
\* for an alternative that is not a string
convertStep(acc, item) ==
  IF acc.threw THEN acc
  ELSE IF ~IsNull(item.replacement) /\ ~IsString(Val(item.replacement))
  THEN [acc EXCEPT !.threw = TRUE]
  ELSE IF ~hasReplacement(item.replacement)
  THEN [acc EXCEPT !.unresolved =
          @ \o <<[ingredient |-> item.ingredient, status |-> item.status]>>]
  ELSE IF RegexTest(acc.convertedText, item.ingredient)
  THEN [acc EXCEPT
          !.convertedText = replaceFrom(@, 1, item.ingredient, Val(item.replacement)),
          !.replacements =
             @ \o <<[original |-> item.ingredient, replacement |-> Val(item.replacement),
                     status |-> item.status]>>]
  ELSE [acc EXCEPT !.unresolved =
          @ \o <<[ingredient |-> item.ingredient, status |-> item.status]>>]

\* convertIngredients(recipeText, detectedIngredients)
convertIngredients(recipeText, detectedIngredients) ==
  LET F[i \in 0..Len(detectedIngredients)] ==
        IF i = 0
        THEN [threw |-> FALSE, convertedText |-> recipeText,
              replacements |-> <<>>, unresolved |-> <<>>]
        ELSE convertStep(F[i - 1], detectedIngredients[i])
  IN  F[Len(detectedIngredients)]

CountStatus(list, statuses) == Cardinality({ i \in DOMAIN list : list[i].status \in statuses })
Clamp(score) == IF score < 0 THEN 0 ELSE IF score > 100 THEN 100 ELSE score

\* the scorer without its full-remediation override
allHaramReplacedNever(originalIngredients, replacements, unresolved) == FALSE

\* an override that is content with one haram ingredient replaced
allHaramReplacedSome(originalIngredients, replacements, unresolved) ==
  /\ CountStatus(originalIngredients, {"haram"}) > 0
  /\ CountStatus(replacements, {"haram"}) > 0

\* lines 483-491: the full-remediation override
allHaramReplaced(originalIngredients, replacements, unresolved) ==
  /\ CountStatus(originalIngredients, {"haram"}) > 0
  /\ CountStatus(replacements, {"haram"}) = CountStatus(originalIngredients, {"haram"})
  /\ CountStatus(unresolved, {"haram"}) = 0

\* the haram and the conditional penalty taken for each other
penalizedScoreSwapped(unresolved) ==
  Clamp(100 - CountStatus(unresolved, {"haram"}) * 10
            - CountStatus(unresolved, {"questionable", "conditional"}) * 20)

\* lines 462-479: 100 less the penalties, clamped
penalizedScore(unresolved) ==
  Clamp(100 - CountStatus(unresolved, {"haram"}) * 20
            - CountStatus(unresolved, {"questionable", "conditional"}) * 10)

\* the scorer without the guard of lines 458-460: nothing found reads as perfect
calculateConfidenceScoreUnguarded(originalIngredients, replacements, unresolved) ==
  IF originalIngredients # <<>>
       /\ allHaramReplaced(originalIngredients, replacements, unresolved) THEN Some(100)
  ELSE Some(penalizedScore(unresolved))

\* calculateConfidenceScore({originalIngredients, replacements, unresolved}):
\* Null, or Some(score)
calculateConfidenceScore(originalIngredients, replacements, unresolved) ==
  IF originalIngredients = <<>> THEN Null
  ELSE IF allHaramReplaced(originalIngredients, replacements, unresolved) THEN Some(100)
  ELSE Some(penalizedScore(unresolved))

\* lines 547-575: one entry of issues
issueOf(item, replacements) ==
  [ingredient |-> item.ingredient,
   replacement |-> IF IsNull(item.replacement) THEN NoReplacementAvailable
                   ELSE Val(item.replacement),
   severity |-> item.severity,
   confidence |-> item.confidence,
   inheritedFrom |-> item.inheritedFrom,
   alternatives |-> item.alternatives,
   trace |-> item.trace,
   status |-> item.status,
   wasReplaced |-> \E i \in DOMAIN replacements : replacements[i].original = item.ingredient]

\* the result of lines 507-512 and 517-522
ZeroResult ==
  [originalText |-> <<>>, convertedText |-> <<>>, issues |-> <<>>, confidenceScore |-> 0]
\* the result of the catch block, lines 589-594
FallbackResult(trimmedText) ==
  [originalText |-> trimmedText, convertedText |-> trimmedText, issues |-> <<>>,
   confidenceScore |-> 0]

\* the boundary mapping with "not evaluated" shown as a perfect score
finalConfidenceScorePerfect(confidenceScore) ==
  IF IsNull(confidenceScore) THEN 100 ELSE Val(confidenceScore)

\* const finalConfidenceScore = confidenceScore === null ? 0 : confidenceScore
finalConfidenceScore(confidenceScore) ==
  IF IsNull(confidenceScore) THEN 0 ELSE Val(confidenceScore)

\* convertRecipe without its try/catch: the error leaves the function
onPipelineErrorRethrown(trimmedText) ==
  [threw |-> TRUE, result |-> FallbackResult(trimmedText)]

\* what the catch block of convertRecipe does with a pipeline that threw
onPipelineError(trimmedText) ==
  [threw |-> FALSE, result |-> FallbackResult(trimmedText)]

\* lines 505-523: the return before the try block
notRun(ingredientList, halalKnowledge) ==
  [threw |-> FALSE, result |-> ZeroResult, knowledge |-> halalKnowledge,
   list |-> ingredientList, ran |-> {}, detected |-> <<>>,
   replacements |-> <<>>, unresolved |-> <<>>, score |-> Null]

\* lines 586-595: the pipeline threw after the stages in ran were started
pipelineFailed(caught, det, ran, detected) ==
  [threw |-> caught.threw, result |-> caught.result, knowledge |-> det.knowledge,
   list |-> det.list, ran |-> ran, detected |-> detected,
   replacements |-> <<>>, unresolved |-> <<>>, score |-> Null]

\* lines 544-584: issues, the score at the boundary and the result
afterScore(trimmedText, det, conv, confidenceScore) ==
  [threw |-> FALSE,
   result |->
     [originalText |-> trimmedText,
      convertedText |-> conv.convertedText,
      issues |-> AsSeq([i \in DOMAIN det.detected |->
                          issueOf(det.detected[i], conv.replacements)]),
      confidenceScore |-> finalConfidenceScore(confidenceScore)],
   knowledge |-> det.knowledge,
   list |-> det.list,
   ran |-> {"detect", "convert", "score"},
   detected |-> det.detected,
   replacements |-> conv.replacements,
   unresolved |-> conv.unresolved,
   score |-> confidenceScore]

\* lines 532-541: the conversion returned conv
afterConvert(trimmedText, det, conv) ==
  IF conv.threw
  THEN pipelineFailed(onPipelineError(trimmedText), det, {"detect", "convert"}, det.detected)
  ELSE afterScore(trimmedText, det, conv,
                  calculateConfidenceScore(det.detected, conv.replacements, conv.unresolved))

\* lines 526-532: the detection returned det
afterDetect(trimmedText, det) ==
  IF det.threw
  THEN pipelineFailed(onPipelineError(trimmedText), det, {"detect"}, <<>>)
  ELSE afterConvert(trimmedText, det, convertIngredients(trimmedText, det.detected))

(***************************************************************************)
(* convertRecipe(recipeText, userPreferences).  The value is               *)
(*   [threw, result, knowledge, list, ran, detected, replacements,         *)
(*    unresolved, score]                                                   *)
(* result is what the caller gets unless threw; knowledge and list are the *)
(* two caches after the call; ran is the set of pipeline stages that were  *)
(* started, and detected, replacements, unresolved and score are what they *)
(* produced.                                                               *)
(***************************************************************************)
convertRecipe(ingredientList, halalKnowledge, file, recipeText, userPreferences) ==
  IF recipeText = <<>> \/ ~IsString(recipeText) \/ trim(recipeText) = <<>>
  THEN notRun(ingredientList, halalKnowledge)
  ELSE afterDetect(trim(recipeText),
                   detectHaramIngredients(ingredientList, halalKnowledge, file,
                                          trim(recipeText), userPreferences))

(***************************************************************************)
(* The process.  file is data/halal_knowledge.json; halalKnowledge and     *)
(* ingredientList are the two module-level caches (halalEngine.js line 18, *)
(* halalConverter.js line 261); call and ret are the last call made to an  *)
(* exported function and what it returned.                                 *)
(***************************************************************************)
VARIABLES file, halalKnowledge, ingredientList, call, ret

\* The scorer on its own: scorerIn is the argument of calculateConfidenceScore,
\* scorerOut what it returned, scorerPc whether it has run.
VARIABLES scorerIn, scorerOut, scorerPc

\* One run of resolveInheritance, a step at a time: stack is the call stack,
\* resolverPc is "run", "done" or "overflow", resolved is the value returned
\* to the outermost caller.
VARIABLES stack, resolverPc, resolved

\* One function of the engine applied on its own: unitIn is its argument,
\* unitOut what it returned, unitPc the function that ran ("idle" before)
VARIABLES unitIn, unitOut, unitPc

processVars == <<file, halalKnowledge, ingredientList, call, ret>>
scorerVars == <<scorerIn, scorerOut, scorerPc>>
resolverVars == <<stack, resolverPc, resolved>>
unitVars == <<unitIn, unitOut, unitPc>>
vars == <<processVars, scorerVars, resolverVars, unitVars>>

S_pork == <<"p","o","r","k">>
S_bacon == <<"b","a","c","o","n">>
S_turkey_bacon == <<"t","u","r","k","e","y"," ","b","a","c","o","n">>
S_red_wine == <<"r","e","d","_","w","i","n","e">>
S_grape_juice == <<"g","r","a","p","e"," ","j","u","i","c","e">>
S_lard == <<"l","a","r","d">>
S_flavoring == <<"f","l","a","v","o","r","i","n","g">>
S_vanilla_essence == <<"v","a","n","i","l","l","a","_","e","s","s","e","n","c","e">>
S_stock == <<"s","t","o","c","k">>
S_ham == <<"h","a","m">>
S_rice == <<"r","i","c","e">>

Entry(key, status, aliases, inheritance, alternatives, tags, category, base) ==
  [key |-> key, status |-> status, aliases |-> aliases, inheritance |-> inheritance,
   alternatives |-> alternatives, tags |-> tags, category |-> category,
   confidence_score_base |-> base]

\* A knowledge file with one entry of each kind the engine tells apart:
\* haram with and without an alternative, conditional and unknown entries that
\* inherit from a haram one, an entry with an alias and an empty tags array,
\* and an entry whose alternative is not a string.
DemoKnowledge ==
  << Entry(S_pork, "haram", <<>>, <<>>, <<>>, Null, "meat", 1),
     Entry(S_bacon, "haram", <<>>, <<S_pork>>, <<S_turkey_bacon>>, Null, "meat", 1),
     Entry(S_red_wine, "haram", <<>>, <<>>, <<S_grape_juice>>, Null, "alcohol", 5),
     Entry(S_lard, "conditional", <<>>, <<S_pork>>, <<>>, Null, "animal-derived", 0),
     Entry(S_flavoring, "conditional", <<S_vanilla_essence>>, <<>>, <<>>, Some(<<>>),
           "additive", 5),
     Entry(S_stock, "unknown", <<>>, <<S_lard>>, <<>>, Null, "liquid", 9),
     Entry(S_ham, "haram", <<>>, <<S_pork>>, <<NonString>>, Null, "meat", 1) >>

\* the file is missing or corrupt (Null), holds {} or holds the entries above
KnowledgeFiles == { Null, Some(<<>>), Some(DemoKnowledge) }

\* the phrases recipe texts are made of
Vocabulary ==
  << S_bacon, underscoresToSpaces(S_red_wine), S_lard, S_flavoring,
     underscoresToSpaces(S_vanilla_essence) >>

\* the largest number of phrases in a recipe text
MaxWords == 2

RECURSIVE JoinPhrases(_, _)
JoinPhrases(phrases, picked) ==
  IF phrases = <<>> THEN <<>>
  ELSE LET rest == JoinPhrases(Tail(phrases), picked \ {Len(phrases)}) IN
       IF Len(phrases) \in picked
       THEN IF rest = <<>> THEN Head(phrases) ELSE Head(phrases) \o <<" ">> \o rest
       ELSE rest

Reverse(s) == AsSeq([i \in DOMAIN s |-> s[Len(s) + 1 - i]])
\* the text made of the picked phrases, the last of Vocabulary first
TextOf(picked) ==
  JoinPhrases(Reverse(Vocabulary), { Len(Vocabulary) + 1 - i : i \in picked })

\* texts that are blank, not a string, padded with white space or free of any
\* known term, and texts that name the entry of unknown status and the entry
\* whose alternative is not a string
OtherTexts ==
  { <<>>, <<" ", "\t">>, NonString, S_rice, S_stock, S_ham,
    <<" ">> \o S_bacon \o <<"\n">>, <<"\n">> \o S_rice \o <<" ", " ">> }

RecipeTexts ==
  { TextOf(picked) : picked \in { P \in SUBSET DOMAIN Vocabulary : Cardinality(P) <= MaxWords } }
  \cup OtherTexts

IngredientNames ==
  Range(Vocabulary) \cup { S_pork, S_red_wine, S_stock, S_ham, NonString, <<>> }

PreferenceInputs ==
  { Null,
    Some(NoPreferences),
    Some([NoPreferences EXCEPT !.strictnessLevel = "strict"]),
    Some([NoPreferences EXCEPT !.strictnessLevel = "flexible"]) }

NoCall == [op |-> "none", text |-> <<>>, name |-> <<>>, prefs |-> Null]
NoScorerInput == [originalIngredients |-> <<>>, replacements |-> <<>>, unresolved |-> <<>>]

\* no call was made to the process yet
ProcessIdle ==
  /\ halalKnowledge = Null
  /\ ingredientList = Null
  /\ call = NoCall
  /\ ret = [threw |-> FALSE]
ScorerIdle == scorerIn = NoScorerInput /\ scorerOut = Null /\ scorerPc = "idle"
ResolverIdle == stack = <<>> /\ resolverPc = "idle" /\ resolved = Null
UnitIdle == unitIn = Null /\ unitOut = Null /\ unitPc = "idle"

Init ==
  /\ file \in KnowledgeFiles
  /\ ProcessIdle
  /\ ScorerIdle
  /\ ResolverIdle
  /\ UnitIdle

\* a request reaches convertRecipe
ConvertRecipe(recipeText, userPreferences) ==
  /\ ret' = convertRecipe(ingredientList, halalKnowledge, file, recipeText, userPreferences)
  /\ halalKnowledge' = ret'.knowledge
  /\ ingredientList' = ret'.list
  /\ call' = [op |-> "convertRecipe", text |-> recipeText, name |-> <<>>,
              prefs |-> userPreferences]
  /\ UNCHANGED <<file, scorerVars, resolverVars, unitVars>>

\* a caller of halalEngine.js asks for one ingredient
GetIngredientDetails(ingredientName, userPreferences) ==
  /\ ret' = getIngredientDetails(halalKnowledge, file, ingredientName, userPreferences)
  /\ halalKnowledge' = ret'.knowledge
  /\ call' = [op |-> "getIngredientDetails", text |-> <<>>, name |-> ingredientName,
              prefs |-> userPreferences]
  /\ UNCHANGED <<file, ingredientList, scorerVars, resolverVars, unitVars>>

\* a caller of halalEngine.js asks for the lookup table
BuildIngredientLookup ==
  /\ ret' = buildIngredientLookup(halalKnowledge, file)
  /\ halalKnowledge' = ret'.knowledge
  /\ call' = [op |-> "buildIngredientLookup", text |-> <<>>, name |-> <<>>,
              prefs |-> Null]
  /\ UNCHANGED <<file, ingredientList, scorerVars, resolverVars, unitVars>>

Next ==
  \/ \E t \in RecipeTexts, p \in PreferenceInputs : ConvertRecipe(t, p)
  \/ \E n \in IngredientNames, p \in PreferenceInputs : GetIngredientDetails(n, p)
  \/ BuildIngredientLookup

Spec == Init /\ [][Next]_vars

(***************************************************************************)
(* calculateConfidenceScore as a function of its argument.  The argument   *)
(* is what convertIngredients hands over: a list of detections, each       *)
(* haram or conditional, and its split into replacements and unresolved.   *)
(***************************************************************************)
\* the largest number of detections in an argument of the scorer
MaxDetections == 6

DetectionKinds == [status : {"haram", "conditional"}, replaced : BOOLEAN]
DetectionLists == UNION { [1..n -> DetectionKinds] : n \in 0..MaxDetections }
IsReplaced(d) == d.replaced
IsLeft(d) == ~d.replaced
WithoutFate(list) == AsSeq([i \in DOMAIN list |-> [status |-> list[i].status]])
ScorerInputOf(list) ==
  [originalIngredients |-> WithoutFate(list),
   replacements |-> WithoutFate(SelectSeq(list, IsReplaced)),
   unresolved |-> WithoutFate(SelectSeq(list, IsLeft))]

InitScore ==
  /\ file = Null
  /\ ProcessIdle
  /\ ResolverIdle
  /\ UnitIdle
  /\ \E list \in DetectionLists : scorerIn = ScorerInputOf(list)
  /\ scorerOut = Null
  /\ scorerPc = "ready"

CalculateConfidenceScore ==
  /\ scorerPc = "ready"
  /\ scorerOut' = calculateConfidenceScore(scorerIn.originalIngredients,
                                           scorerIn.replacements, scorerIn.unresolved)
  /\ scorerPc' = "done"
  /\ UNCHANGED <<scorerIn, processVars, resolverVars, unitVars>>

NextScore == CalculateConfidenceScore

SpecScore == InitScore /\ [][NextScore]_vars

(***************************************************************************)
(* resolveInheritance (halalEngine.js lines 52-100) a step at a time.  A   *)
(* frame of the call stack is                                              *)
(*   [ingredientName, visited, at, parents, value]                         *)
(* at "enter" the call is about to run lines 53-89, at "loop" it is in the *)
(* for loop over parents (lines 75-78 or 93-96), at "return" it returns    *)
(* value.  A call pushes a frame; when the engine has no room for one more *)
(* frame the run ends in a RangeError, resolverPc = "overflow".            *)
(***************************************************************************)
\* the frames the engine has room for
MaxStack == 6
\* the largest number of names in the inheritance lists of all entries together
MaxEdges == 3

N_a == <<"a">>
N_b == <<"b">>
N_x == <<"x">>
ResolverKeys == <<N_a, N_b>>
\* the names an inheritance list may hold: the keys, and a name that is no key
ResolverNames == {N_a, N_b, N_x}
ParentLists == UNION { [1..n -> ResolverNames] : n \in 0..MaxEdges }

\* two entries a and b, haram or not, with any inheritance lists within
\* MaxEdges; x is an alias of the entry numbered aliasOf, or of none
ResolverKnowledge(statuses, parents, aliasOf) ==
  AsSeq([i \in DOMAIN ResolverKeys |->
           Entry(ResolverKeys[i], statuses[i],
                 IF aliasOf = i THEN <<N_x>> ELSE <<>>,
                 parents[i], <<>>, Null, "", 0)])

ResolverKnowledgeBases ==
  { ResolverKnowledge(statuses, parents, aliasOf) :
      statuses \in [DOMAIN ResolverKeys -> {"haram", "conditional"}],
      parents \in { ps \in [DOMAIN ResolverKeys -> ParentLists] :
                      Len(ps[1]) + Len(ps[2]) <= MaxEdges },
      aliasOf \in 0..Len(ResolverKeys) }

Frame(ingredientName, visited) ==
  [ingredientName |-> ingredientName, visited |-> visited, at |-> "enter",
   parents |-> <<>>, value |-> Null]

Top == stack[Len(stack)]
SetTop(frame) == [stack EXCEPT ![Len(stack)] = frame]
Returning(frame, value) == [frame EXCEPT !.at = "return", !.value = value]
Looping(frame, parents) == [frame EXCEPT !.at = "loop", !.parents = parents]

InitResolve ==
  /\ \E kb \in ResolverKnowledgeBases : file = Some(kb) /\ halalKnowledge = Some(kb)
  /\ ingredientList = Null
  /\ \E name \in ResolverNames :
       /\ call = [op |-> "resolveInheritance", text |-> <<>>, name |-> name, prefs |-> Null]
       /\ stack = <<Frame(name, {})>>
  /\ ret = [threw |-> FALSE]
  /\ resolverPc = "run"
  /\ resolved = Null
  /\ ScorerIdle
  /\ UnitIdle

\* an entry that goes on to its parents whatever its status: the tests of
\* lines 70 and 87 are not made
ResolveEnterThroughHaram ==
  /\ resolverPc = "run"
  /\ Top.at = "enter"
  /\ LET normalized == normalizeIngredientName(Top.ingredientName)
         knowledge == Val(loadHalalKnowledge(halalKnowledge, file))
         idx == IndexOfKey(knowledge, normalized)
         owners == AliasOwners(knowledge, normalized)
         added == [Top EXCEPT !.visited = @ \cup {normalized}]
     IN  stack' = SetTop(
           IF VisitedHas(Top.visited, normalized) THEN Returning(Top, Null)
           ELSE IF idx = 0
           THEN IF owners = {} THEN Returning(added, Null)
                ELSE Looping(added, knowledge[Min(owners)].inheritance)
           ELSE Looping(added, knowledge[idx].inheritance))
  /\ UNCHANGED <<resolverPc, resolved, processVars, scorerVars, unitVars>>

\* lines 53-89 and the tests of lines 74 and 92
ResolveEnter ==
  /\ resolverPc = "run"
  /\ Top.at = "enter"
  /\ LET normalized == normalizeIngredientName(Top.ingredientName)
         knowledge == Val(loadHalalKnowledge(halalKnowledge, file))
         idx == IndexOfKey(knowledge, normalized)
         owners == AliasOwners(knowledge, normalized)
         added == [Top EXCEPT !.visited = @ \cup {normalized}]
     IN  stack' = SetTop(
           IF VisitedHas(Top.visited, normalized) THEN Returning(Top, Null)
           ELSE IF idx = 0
           THEN IF owners = {} THEN Returning(added, Null)
                ELSE IF knowledge[Min(owners)].status = "haram"
                THEN Returning(added, Some(knowledge[Min(owners)].key))
                ELSE Looping(added, knowledge[Min(owners)].inheritance)
           ELSE IF knowledge[idx].status = "haram"
           THEN Returning(added, Some(normalized))
           ELSE Looping(added, knowledge[idx].inheritance))
  /\ UNCHANGED <<resolverPc, resolved, processVars, scorerVars, unitVars>>

\* one turn of the for loop: resolveInheritance(parent, new Set(visited)),
\* or return null when no parent is left
ResolveParent ==
  /\ resolverPc = "run"
  /\ Top.at = "loop"
  /\ IF Top.parents = <<>>
     THEN stack' = SetTop(Returning(Top, Null)) /\ UNCHANGED resolverPc
     ELSE IF Len(stack) >= MaxStack
     THEN resolverPc' = "overflow" /\ UNCHANGED stack
     ELSE stack' = Append(stack, Frame(Head(Top.parents), Top.visited))
          /\ UNCHANGED resolverPc
  /\ UNCHANGED <<resolved, processVars, scorerVars, unitVars>>

\* a return from resolveInheritance(parent, visited), the set of the caller
\* itself being passed on: what the call added is in the caller's set
ResolveReturnShared ==
  /\ resolverPc = "run"
  /\ Top.at = "return"
  /\ IF Len(stack) = 1
     THEN /\ resolved' = Top.value
          /\ resolverPc' = "done"
          /\ UNCHANGED stack
     ELSE LET caller == [stack[Len(stack) - 1] EXCEPT !.visited = @ \cup Top.visited]
              resumed == IF ~IsNull(Top.value) THEN Returning(caller, Top.value)
                         ELSE Looping(caller, Tail(caller.parents))
          IN  /\ stack' = [SubSeq(stack, 1, Len(stack) - 1) EXCEPT ![Len(stack) - 1] = resumed]
              /\ UNCHANGED <<resolved, resolverPc>>
  /\ UNCHANGED <<processVars, scorerVars, unitVars>>

\* a return: to the loop of the calling frame (if (haramSource) return
\* haramSource, else the next parent), or to the outermost caller
ResolveReturn ==
  /\ resolverPc = "run"
  /\ Top.at = "return"
  /\ IF Len(stack) = 1
     THEN /\ resolved' = Top.value
          /\ resolverPc' = "done"
          /\ UNCHANGED stack
     ELSE LET caller == stack[Len(stack) - 1]
              resumed == IF ~IsNull(Top.value) THEN Returning(caller, Top.value)
                         ELSE Looping(caller, Tail(caller.parents))
          IN  /\ stack' = [SubSeq(stack, 1, Len(stack) - 1) EXCEPT ![Len(stack) - 1] = resumed]
              /\ UNCHANGED <<resolved, resolverPc>>
  /\ UNCHANGED <<processVars, scorerVars, unitVars>>

NextResolve == ResolveEnter \/ ResolveParent \/ ResolveReturn

\* the engine runs a call it has started until the call returns or fails
SpecResolve == InitResolve /\ [][NextResolve]_vars /\ WF_vars(NextResolve)

(***************************************************************************)
(* normalizeIngredientName on its own, applied to a name and then to its   *)
(* own result.  Names are all strings of up to MaxName characters over a   *)
(* lower-case letter, an upper-case letter, the digits 0, 5 and 9, the     *)
(* underscore, a blank and a hyphen, and a value that is not a string.     *)
(***************************************************************************)
MaxName == 3
NameChars == {"a", "B", "0", "5", "9", "_", " ", "-"}
Names == UNION { [1..n -> NameChars] : n \in 0..MaxName } \cup {NonString}

InitNormalize ==
  /\ file = Null
  /\ ProcessIdle
  /\ ScorerIdle
  /\ ResolverIdle
  /\ \E name \in Names : unitIn = [name |-> name]
  /\ unitOut = Null
  /\ unitPc = "ready"

NormalizeIngredientName ==
  /\ unitPc = "ready"
  /\ unitOut' = [once |-> normalizeIngredientName(unitIn.name),
                 twice |-> normalizeIngredientName(normalizeIngredientName(unitIn.name))]
  /\ unitPc' = "normalize"
  /\ UNCHANGED <<unitIn, processVars, scorerVars, resolverVars>>

NextNormalize == NormalizeIngredientName

SpecNormalize == InitNormalize /\ [][NextNormalize]_vars

(***************************************************************************)
(* The detector and the converter on one term.  The knowledge file holds   *)
(* one haram entry whose key is a word, two words or a word that starts    *)
(* with a digit, and whose alternative is "b c"; one request is made with  *)
(* a text of up to MaxText characters over letters of both cases, a digit, *)
(* a blank and a full stop.                                                *)
(***************************************************************************)
MaxText == 4
MatchChars == {"a", "A", "x", "9", " ", "."}
MatchTexts == UNION { [1..n -> MatchChars] : n \in 1..MaxText }
MatchKeys == { <<"a">>, <<"a", "a">>, <<"a", "_", "a">>, <<"9", "a">> }
MatchAlternative == <<"b", " ", "c">>
MatchKnowledge(key) ==
  << Entry(key, "haram", <<>>, <<>>, <<MatchAlternative>>, Null, "meat", 1) >>

InitMatch ==
  /\ \E key \in MatchKeys : file = Some(MatchKnowledge(key))
  /\ ProcessIdle
  /\ ScorerIdle
  /\ ResolverIdle
  /\ UnitIdle

\* the first request of the process
FirstConvertRecipe ==
  /\ call = NoCall
  /\ \E text \in MatchTexts : ConvertRecipe(text, Some(NoPreferences))

NextMatch == FirstConvertRecipe

SpecMatch == InitMatch /\ [][NextMatch]_vars

(***************************************************************************)
(* The policy adjustment on one entry.  The knowledge file holds one entry *)
(* "x" of any raw status that declares any of the three tags; the first    *)
(* call asks for it under any preference record: a school that the school  *)
(* table has, has without a cell or lacks, given in either field, and a    *)
(* strictness level likewise.                                              *)
(***************************************************************************)
S_x == <<"x">>
Statuses == {"haram", "halal", "conditional", "unknown"}
TagLists ==
  { a \o b \o c : a \in {<<>>, <<"gelatin_unknown">>},
                  b \in {<<>>, <<"alcohol_trace">>},
                  c \in {<<>>, <<"seafood_shellfish">>} }
PolicyKnowledge(status, tags) ==
  << Entry(S_x, status, <<>>, <<>>, <<>>, Some(tags), "other", 5) >>
PolicyPreferences ==
  [schoolOfThought : {"", "no-preference", "hanafi", "shafii", "maliki", "jafari"},
   madhab : {"", "hanafi"},
   strictnessLevel : {"", "flexible", "standard", "strict", "lenient"},
   strictness : {"", "strict"}]

InitPolicy ==
  /\ \E status \in Statuses, tags \in TagLists : file = Some(PolicyKnowledge(status, tags))
  /\ ProcessIdle
  /\ ScorerIdle
  /\ ResolverIdle
  /\ UnitIdle

\* the first call of the process
FirstGetIngredientDetails ==
  /\ call = NoCall
  /\ \E p \in PolicyPreferences : GetIngredientDetails(S_x, Some(p))

NextPolicy == FirstGetIngredientDetails

SpecPolicy == InitPolicy /\ [][NextPolicy]_vars

(***************************************************************************)
(* Detection on one entry.  The knowledge file holds one entry, haram,     *)
(* conditional or of unknown status, whose key is a letter, a letter and a *)
(* digit, a digit, or two letters joined by an underscore, with or without *)
(* the alias "x"; the first request carries any text of up to MaxText      *)
(* characters over those letters, the digit and the blank.                 *)
(***************************************************************************)
DetectChars == {"a", "x", "5", " "}
DetectTexts == UNION { [1..n -> DetectChars] : n \in 0..MaxText }
DetectKeys == { <<"a">>, <<"a","5">>, <<"5">>, <<"a","_","a">> }
DetectKnowledge(key, status, aliases) ==
  << Entry(key, status, aliases, <<>>, <<>>, Null, "other", 1) >>

InitDetect ==
  /\ \E key \in DetectKeys, status \in {"haram", "conditional", "unknown"},
        aliases \in {<<>>, <<S_x>>} :
       file = Some(DetectKnowledge(key, status, aliases))
  /\ ProcessIdle
  /\ ScorerIdle
  /\ ResolverIdle
  /\ UnitIdle

\* the first request of the process
FirstDetect ==
  /\ call = NoCall
  /\ \E text \in DetectTexts : ConvertRecipe(text, Some(NoPreferences))

NextDetect == FirstDetect

SpecDetect == InitDetect /\ [][NextDetect]_vars

(***************************************************************************)
(* convertIngredients as a function of its arguments: a text and a list of *)
(* up to MaxItems detections, one for each of some distinct terms that     *)
(* occur in the text, haram or conditional, whose first alternative is     *)
(* missing, blank, the placeholder "Halal alternative needed", or a word.  *)
(***************************************************************************)
\* the largest number of detections handed to the converter
MaxItems == 2

T_a == <<"a">>
T_x == <<"x">>
T_a_x == <<"a", " ", "x">>
ConvertTexts ==
  { T_a, T_x, T_a_x, <<"x", " ", "a">>, <<"a", " ", "x", " ", "a">>, <<"b", " ", "a">> }
ConvertItems ==
  [ingredient : {T_a, T_x, T_a_x},
   replacement : {Null, Some(<<"b">>), Some(<<" ">>), Some(HalalAlternativeNeeded),
                  Some(T_x)},
   status : {"haram", "conditional"}]
\* the lists detectHaramIngredients can hand over for text
ConvertLists(text) ==
  { list \in UNION { [1..n -> ConvertItems] : n \in 0..MaxItems } :
      /\ \A i \in DOMAIN list : RegexTest(text, list[i].ingredient)
      /\ \A i, j \in DOMAIN list : list[i].ingredient = list[j].ingredient => i = j }

InitConvert ==
  /\ file = Null
  /\ ProcessIdle
  /\ ScorerIdle
  /\ ResolverIdle
  /\ \E text \in ConvertTexts : \E list \in ConvertLists(text) :
       unitIn = [recipeText |-> text, detectedIngredients |-> list]
  /\ unitOut = Null
  /\ unitPc = "ready"

\* convertIngredients and, on what it returned, calculateConfidenceScore
\* (convertRecipe lines 532-541)
ConvertIngredients ==
  /\ unitPc = "ready"
  /\ unitOut' = convertIngredients(unitIn.recipeText, unitIn.detectedIngredients)
  /\ scorerOut' = calculateConfidenceScore(unitIn.detectedIngredients,
                                           unitOut'.replacements, unitOut'.unresolved)
  /\ unitPc' = "convert"
  /\ UNCHANGED <<unitIn, processVars, scorerIn, scorerPc, resolverVars>>

NextConvert == ConvertIngredients

SpecConvert == InitConvert /\ [][NextConvert]_vars

(***************************************************************************)
(* The two caches while the knowledge file changes on disk.  Between the   *)
(* calls of the process the file may be written, removed or damaged; the   *)
(* calls are convertRecipe on a text that names bacon, lard or red wine, on *)
(* one that names no ingredient and on a blank one, getIngredientDetails   *)
(* for a known and for an unknown name, and buildIngredientLookup.         *)
(***************************************************************************)
CacheTexts == { S_bacon, S_lard, underscoresToSpaces(S_red_wine), S_rice, <<" ">> }
CacheNames == { S_bacon, S_pork, S_rice }
CachePreferences ==
  { Some(NoPreferences), Some([NoPreferences EXCEPT !.strictnessLevel = "strict"]) }
\* what the file may come to hold: nothing readable, {}, the entries of
\* DemoKnowledge, or its first two entries only
CacheFiles == KnowledgeFiles \cup { Some(SubSeq(DemoKnowledge, 1, 2)) }

\* data/halal_knowledge.json is replaced on disk (jsonFilePath, line 15)
WriteKnowledgeFile(content) ==
  /\ file # content
  /\ file' = content
  /\ call' = [op |-> "writeKnowledgeFile", text |-> <<>>, name |-> <<>>, prefs |-> Null]
  /\ ret' = [threw |-> FALSE]
  /\ UNCHANGED <<halalKnowledge, ingredientList, scorerVars, resolverVars, unitVars>>

NextCache ==
  \/ \E t \in CacheTexts, p \in CachePreferences : ConvertRecipe(t, p)
  \/ \E n \in CacheNames, p \in CachePreferences : GetIngredientDetails(n, p)
  \/ BuildIngredientLookup
  \/ \E content \in CacheFiles : WriteKnowledgeFile(content)

SpecCache == Init /\ [][NextCache]_vars

(***************************************************************************)
(* Properties of convertRecipe and of the knowledge engine, over Spec.     *)
(***************************************************************************)
AllStages == {"detect", "convert", "score"}
IsBlank(text) == ~IsString(text) \/ \A i \in DOMAIN text : text[i] \in WhiteSpace
\* text without its leading and trailing white space
Trimmed(text) ==
  IF IsBlank(text) THEN <<>>
  ELSE LET first == Min({ i \in DOMAIN text : text[i] \notin WhiteSpace })
           last == CHOOSE j \in DOMAIN text :
                     /\ text[j] \notin WhiteSpace
                     /\ \A k \in DOMAIN text : k > j => text[k] \in WhiteSpace
       IN  SubSeq(text, first, last)
\* the entries of the knowledge file, none when it is missing or corrupt
FileEntries == IF IsNull(file) THEN <<>> ELSE Val(file)
\* the key and the aliases of an entry, as they are searched for in a text
TermsOf(entry) ==
  { underscoresToSpaces(name) : name \in ({entry.key} \cup Range(entry.aliases)) }
\* term occurs in text as a whole word, whatever the case of its letters
Occurs(text, term) ==
  \E i \in 1..(Len(text) - Len(term) + 1) :
    /\ toLowerCase(SubSeq(text, i, i + Len(term) - 1)) = toLowerCase(term)
    /\ (i = 1 \/ ~IsWordChar(text[i - 1]) \/ ~IsWordChar(text[i]))
    /\ (i + Len(term) > Len(text) \/ ~IsWordChar(text[i + Len(term) - 1])
          \/ ~IsWordChar(text[i + Len(term)]))
SomeTermOccurs(text) ==
  \E i \in DOMAIN FileEntries : \E term \in TermsOf(FileEntries[i]) : Occurs(text, term)

\* C1: convertRecipe never lets an exception out; when detection or conversion
\* fails inside, the caller gets the fallback result: the trimmed text as both
\* texts, no issues, score 0.
C1_NeverThrows ==
  call.op = "convertRecipe" =>
    /\ ~ret.threw
    /\ (ret.ran \in {{"detect"}, {"detect", "convert"}}) =>
         ret.result = [originalText |-> Trimmed(call.text),
                       convertedText |-> Trimmed(call.text),
                       issues |-> <<>>, confidenceScore |-> 0]

\* a detection that failed (null preferences and a matching term) was caught
C1_Witness ==
  /\ call.op = "convertRecipe"
  /\ IsNull(call.prefs)
  /\ ret.ran = {"detect"}
  /\ ret.result.originalText # <<>>

\* C2: for a recipeText that is not a string, is empty or is white space only,
\* convertRecipe returns the zero result and runs no stage of the pipeline:
\* neither cache is loaded or changed by the call.
C2_BlankShortCircuit ==
  [][ (call'.op = "convertRecipe" /\ IsBlank(call'.text)) =>
        /\ ret'.result = [originalText |-> <<>>, convertedText |-> <<>>,
                          issues |-> <<>>, confidenceScore |-> 0]
        /\ ret'.ran = {}
        /\ halalKnowledge' = halalKnowledge
        /\ ingredientList' = ingredientList ]_vars

\* a white-space-only text was the first call and the caches are still empty
C2_Witness ==
  /\ call.op = "convertRecipe"
  /\ call.text = <<" ", "\t">>
  /\ IsNull(halalKnowledge)
  /\ IsNull(ingredientList)

\* C3: for a non-blank text in which no key or alias of the knowledge base
\* occurs, the scorer gives null, the result carries score 0, convertedText
\* equals originalText and there are no issues.
C3_NoMatch ==
  (call.op = "convertRecipe" /\ ~IsBlank(call.text) /\ ~SomeTermOccurs(Trimmed(call.text))) =>
    /\ ~ret.threw
    /\ IsNull(ret.score)
    /\ ret.result.confidenceScore = 0
    /\ ret.result.convertedText = ret.result.originalText
    /\ ret.result.originalText = Trimmed(call.text)
    /\ ret.result.issues = <<>>

\* a text with no known term went through the three stages over a loaded,
\* non-empty knowledge base
C3_Witness ==
  /\ call.op = "convertRecipe"
  /\ Trimmed(call.text) = S_rice
  /\ ret.ran = AllStages
  /\ FileEntries # <<>>
  /\ ret.result.confidenceScore = 0

\* the detections of the last call that have status haram
HaramDetected == { i \in DOMAIN ret.detected : ret.detected[i].status = "haram" }
WasReplaced(d) == \E j \in DOMAIN ret.replacements : ret.replacements[j].original = d.ingredient
IsUnresolved(d) == \E j \in DOMAIN ret.unresolved : ret.unresolved[j].ingredient = d.ingredient

C8_KnowledgeReadOnly ==
  ~IsNull(halalKnowledge) => Val(halalKnowledge) = FileEntries

\* C9: the result of a convertRecipe call is the result the same call gives
\* alone in a fresh process, whatever calls came before it.
C9_RequestsIndependent ==
  call.op = "convertRecipe" =>
    ret.result = convertRecipe(Null, Null, file, call.text, call.prefs).result

\* entry i is not haram itself and its inheritance chain ends in a haram source
InheritsHaram(i) ==
  /\ FileEntries[i].status # "haram"
  /\ ~IsNull(resolveInheritance(FileEntries, FileEntries[i].key, {}))

\* C10: an entry that is not haram itself but whose inheritance chain resolves
\* to a haram source is reported with final status haram by
\* getIngredientDetails, and detected when one of its terms occurs in the text.
C10_InheritedStatus ==
  /\ (/\ call.op = "getIngredientDetails" /\ ~ret.threw /\ ~IsNull(ret.details)
      /\ Val(ret.details).originalStatus # "haram"
      /\ ~IsNull(Val(ret.details).inheritedFrom))
       => Val(ret.details).status = "haram"
  /\ (call.op = "convertRecipe" /\ ret.ran = AllStages) =>
        \A i \in DOMAIN FileEntries :
          (InheritsHaram(i) /\ \E term \in TermsOf(FileEntries[i]) : Occurs(Trimmed(call.text), term))
            => \E j \in DOMAIN ret.detected :
                 /\ ret.detected[j].normalizedName = FileEntries[i].key
                 /\ ret.detected[j].status = "haram"

(***************************************************************************)
(* Properties of the scorer, over SpecScore.                               *)
(***************************************************************************)
HowMany(list, status) == Cardinality({ i \in DOMAIN list : list[i].status = status })
\* at least one haram detection, and every haram detection was replaced
FullyRemediated ==
  /\ HowMany(scorerIn.originalIngredients, "haram") > 0
  /\ HowMany(scorerIn.unresolved, "haram") = 0

\* C4: the scorer returns null exactly when the detection list is empty, and
\* an integer from 0 to 100 for every other detection list.
C4_NullIffNoDetections ==
  scorerPc = "done" =>
    /\ IsNull(scorerOut) <=> scorerIn.originalIngredients = <<>>
    /\ scorerIn.originalIngredients # <<>> => Val(scorerOut) \in 0..100

\* the scorer ran on an empty detection list and returned null
C4_Witness ==
  /\ scorerPc = "done"
  /\ scorerIn.originalIngredients = <<>>
  /\ IsNull(scorerOut)

\* C5: without the full-remediation override, the score of a non-empty
\* detection list is 100 less 20 for each unresolved haram entry and 10 for
\* each unresolved conditional entry, kept within 0..100; one unresolved haram
\* detection alone scores 80 and two score 60.
C5_PenaltyFormula ==
  (scorerPc = "done" /\ scorerIn.originalIngredients # <<>>) =>
    LET penalty == 20 * HowMany(scorerIn.unresolved, "haram")
                   + 10 * HowMany(scorerIn.unresolved, "conditional")
    IN  /\ ~FullyRemediated =>
             Val(scorerOut) = IF penalty >= 100 THEN 0 ELSE 100 - penalty
        /\ (scorerIn.unresolved = <<[status |-> "haram"]>>
              /\ Len(scorerIn.originalIngredients) = 1) => scorerOut = Some(80)
        /\ (scorerIn.unresolved = <<[status |-> "haram"], [status |-> "haram"]>>
              /\ Len(scorerIn.originalIngredients) = 2) => scorerOut = Some(60)

\* more penalty than 100 was due and the score stopped at 0
C5_Witness ==
  /\ scorerPc = "done"
  /\ HowMany(scorerIn.unresolved, "haram") >= 5
  /\ HowMany(scorerIn.unresolved, "conditional") >= 1
  /\ scorerOut = Some(0)

(***************************************************************************)
(* Properties of the inheritance resolver, over SpecResolve.               *)
(***************************************************************************)
\* a inherits b, b inherits a, and neither is haram
TwoEntryCycle ==
  LET kb == Val(halalKnowledge) IN
  /\ kb[1].status # "haram" /\ kb[2].status # "haram"
  /\ N_b \in Range(kb[1].inheritance)
  /\ N_a \in Range(kb[2].inheritance)

\* C7: resolveInheritance terminates for every name and every knowledge base,
\* cyclic ones and cycles entered through an alias included: the call returns,
\* the stack never runs out, and on a two-entry cycle with no haram entry the
\* value returned is null.
C7_ResolveTerminates ==
  /\ <>(resolverPc = "done")
  /\ [](resolverPc # "overflow")
  /\ []((resolverPc = "done" /\ TwoEntryCycle) => IsNull(resolved))

\* a call that entered a two-entry cycle through the alias x has returned null
C7_Witness ==
  /\ resolverPc = "done"
  /\ TwoEntryCycle
  /\ call.name = N_x
  /\ AliasOwners(Val(halalKnowledge), N_x) # {}
  /\ IsNull(resolved)

\* the calls of the run, outermost first: the name call i looks up, the set it
\* was given (a copy of its caller's, the empty set for the outermost call)
\* and the entry the name stands for, 0 when it is neither a key nor an alias
NameOf(i) == normalizeIngredientName(stack[i].ingredientName)
PassedTo(i) == IF i = 1 THEN {} ELSE stack[i - 1].visited
ResolvedIndex(kb, name) ==
  IF \E k \in DOMAIN kb : kb[k].key = name
  THEN CHOOSE k \in DOMAIN kb : kb[k].key = name
  ELSE IF \E k \in DOMAIN kb : name \in Range(kb[k].aliases)
  THEN Min({ k \in DOMAIN kb : name \in Range(kb[k].aliases) })
  ELSE 0
EntryOfCall(i) == ResolvedIndex(Val(halalKnowledge), NameOf(i))

\* C26: a call for a name whose entry is haram returns the key of that entry
\* and looks at none of its parents, whatever inheritance the entry declares;
\* a call for a name that is neither a key nor an alias returns null
C26_HaramIsTerminal ==
  \A i \in DOMAIN stack :
    stack[i].at # "enter" =>
      /\ EntryOfCall(i) = 0 => (stack[i].at = "return" /\ IsNull(stack[i].value))
      /\ (EntryOfCall(i) # 0 /\ Val(halalKnowledge)[EntryOfCall(i)].status = "haram") =>
           /\ stack[i].at = "return"
           /\ stack[i].value = Some(Val(halalKnowledge)[EntryOfCall(i)].key)
           /\ stack[i].parents = <<>>
           /\ i = Len(stack)

\* asked by its alias, a haram entry that declares parents was returned as its
\* own source
C26_Witness ==
  /\ resolverPc = "done"
  /\ call.name = N_x
  /\ EntryOfCall(1) # 0
  /\ Val(halalKnowledge)[EntryOfCall(1)].status = "haram"
  /\ Val(halalKnowledge)[EntryOfCall(1)].inheritance # <<>>
  /\ resolved = Some(Val(halalKnowledge)[EntryOfCall(1)].key)

\* what the resolver is to return for name under visited: null for a visited
\* or unknown name, the key of a haram entry, and for any other entry the
\* result of the first parent in declared order that has one
RECURSIVE ClaimedSource(_, _, _)
FirstWithSource(kb, parents, visited) ==
  { k \in DOMAIN parents :
      /\ ~IsNull(ClaimedSource(kb, parents[k], visited))
      /\ \A j \in 1..(k - 1) : IsNull(ClaimedSource(kb, parents[j], visited)) }
ClaimedOfEntry(kb, idx, visited) ==
  IF idx = 0 THEN Null
  ELSE IF kb[idx].status = "haram" THEN Some(kb[idx].key)
  ELSE IF FirstWithSource(kb, kb[idx].inheritance, visited) = {} THEN Null
  ELSE ClaimedSource(kb, kb[idx].inheritance[Min(FirstWithSource(kb, kb[idx].inheritance, visited))],
                     visited)
ClaimedSource(kb, name, visited) ==
  IF name \in visited THEN Null
  ELSE ClaimedOfEntry(kb, ResolvedIndex(kb, name), visited \cup {name})

\* C27: a call for an entry that is not haram returns what its first parent
\* with a non-null resolution returns, in declared order, and null when there
\* is none; the set a call is given holds the names of the calls it is nested
\* in and nothing else, so what was visited under one parent is not in the
\* set given to the next
C27_FirstParentWins ==
  \A i \in DOMAIN stack :
    /\ PassedTo(i) = { NameOf(j) : j \in 1..(i - 1) }
    /\ (/\ stack[i].at = "return"
        /\ EntryOfCall(i) # 0
        /\ Val(halalKnowledge)[EntryOfCall(i)].status # "haram")
         => stack[i].value = ClaimedSource(Val(halalKnowledge), NameOf(i), PassedTo(i))

\* a declares the parent b twice and b is not haram: b, visited once already
\* under a, is being explored again as the second parent
C27_Witness ==
  /\ resolverPc = "run"
  /\ Len(stack) = 2
  /\ call.name = N_a
  /\ Val(halalKnowledge)[1].inheritance = <<N_b, N_b>>
  /\ Val(halalKnowledge)[2].status # "haram"
  /\ stack[1].parents = <<N_b>>
  /\ stack[2].ingredientName = N_b
  /\ stack[2].at = "loop"

\* C28: resolveInheritance is a pure function: when a call returns, the set
\* it was given is as it was given, the knowledge cache and the file are as
\* they were, and the value returned is a function of the name, the set and
\* the knowledge base
C28_Pure ==
  /\ \A i \in DOMAIN stack : stack[i].at = "return" => stack[i].visited = PassedTo(i)
  /\ halalKnowledge = file
  /\ ingredientList = Null
  /\ resolverPc = "done" => resolved = ClaimedSource(Val(halalKnowledge), NameOf(1), {})

\* C29: a call for a name that is no key but an alias of entry K returns what
\* a call for K given the same set returns
C29_AliasAsKey ==
  \A i \in DOMAIN stack :
    (/\ stack[i].at = "return"
     /\ NameOf(i) \notin Keys(Val(halalKnowledge))
     /\ EntryOfCall(i) # 0)
      => stack[i].value =
           resolveInheritance(Val(halalKnowledge), Val(halalKnowledge)[EntryOfCall(i)].key,
                              PassedTo(i))

\* C15: with the knowledge file missing or corrupt the knowledge base is
\* empty: no call fails, and every convertRecipe call on a non-blank text runs
\* all its stages and returns the trimmed text unchanged with no issues
C15_LoadErrorDegrades ==
  (IsNull(file) /\ call.op # "none") =>
    /\ ~ret.threw
    /\ halalKnowledge = Some(<<>>) \/ (call.op = "convertRecipe" /\ IsBlank(call.text))
    /\ (call.op = "convertRecipe" /\ ~IsBlank(call.text)) =>
         /\ ret.ran = AllStages
         /\ ret.result.issues = <<>>
         /\ ret.result.originalText = Trimmed(call.text)
         /\ ret.result.convertedText = Trimmed(call.text)

\* a text naming a known ingredient was converted with the file missing
C15_Witness ==
  /\ IsNull(file)
  /\ call.op = "convertRecipe"
  /\ call.text = <<" ">> \o S_bacon \o <<"\n">>
  /\ ret.result.convertedText = S_bacon
  /\ ingredientList = Some(<<>>)

\* the tags the claim infers for an entry that declares none: from its
\* category and from its own name
TagsFromEntry(entry) ==
  (IF entry.category = "animal-derived"
        \/ includes(entry.key, <<"g","e","l","a","t","i","n">>)
     THEN <<"gelatin_unknown">> ELSE <<>>)
  \o (IF includes(entry.key, <<"v","a","n","i","l","l","a">>)
         \/ includes(entry.key, <<"e","x","t","r","a","c","t">>)
        THEN <<"alcohol_trace">> ELSE <<>>)
  \o (IF includes(entry.key, <<"s","h","e","l","l","f","i","s","h">>)
         \/ includes(entry.key, <<"s","h","r","i","m","p">>)
         \/ includes(entry.key, <<"l","o","b","s","t","e","r">>)
        THEN <<"seafood_shellfish">> ELSE <<>>)

\* C19: the tags inferred for an entry that declares none come from the entry
\* (its category and its name) and so are the same whichever of its terms was
\* asked for; they are seen in the tags array of the entry, where the engine
\* leaves them
C19_TagsInferredFromEntry ==
  \A i \in DOMAIN FileEntries :
    (FileEntries[i].tags = Some(<<>>) /\ ~IsNull(halalKnowledge)) =>
      Val(halalKnowledge)[i].tags \in {Some(<<>>), Some(TagsFromEntry(FileEntries[i]))}

\* the terms of the lookup table that belong to key and occur in text as a
\* whole word, by their place in the table
MatchingPlaces(lookup, key, text) ==
  { k \in DOMAIN lookup :
      /\ lookup[k].normalizedKey = key
      /\ \E i \in DOMAIN text : MatchAt(text, lookup[k].searchTerm, i) }

\* C20: a detect call makes at most one Detection for an entry of the
\* knowledge base, however many of its terms occur in the text, and the
\* Detection carries the first of those terms in the order of the lookup table
C20_OncePerOwner ==
  (call.op = "convertRecipe" /\ ~IsNull(ingredientList)) =>
    /\ \A i, j \in DOMAIN ret.detected :
         ret.detected[i].normalizedName = ret.detected[j].normalizedName => i = j
    /\ \A i \in DOMAIN ret.detected :
         LET places == MatchingPlaces(Val(ingredientList), ret.detected[i].normalizedName,
                                      Trimmed(call.text))
         IN  /\ places # {}
             /\ ret.detected[i].matchedTerm = Val(ingredientList)[Min(places)].searchTerm

\* the key and the alias of one entry both occur and one Detection, under the
\* key, was made
C20_Witness ==
  /\ call.op = "convertRecipe"
  /\ call.text = underscoresToSpaces(S_vanilla_essence) \o <<" ">> \o S_flavoring
  /\ Len(ret.detected) = 1
  /\ ret.detected[1].normalizedName = S_flavoring
  /\ ret.detected[1].matchedTerm = S_flavoring

\* the knowledge a call starts from: the cache, or the file when nothing is
\* cached yet
KnowledgeBefore == Val(loadHalalKnowledge(halalKnowledge, file))
\* the statuses getIngredientDetails can give entry under userPreferences, one
\* for each of its terms
StatusesOf(entry, userPreferences) ==
  { finalStatus(entry, normalizeIngredientName(term), userPreferences) :
      term \in TermsOf(entry) }

\* C21: every Detection of a detect call has final status haram or conditional,
\* and an entry whose final status is anything else (halal, unknown) under the
\* preferences of the call has no Detection in the list
C21_OnlyReportedStatuses ==
  [][ (call'.op = "convertRecipe" /\ "detect" \in ret'.ran /\ ~IsNull(call'.prefs)) =>
        /\ \A j \in DOMAIN ret'.detected :
             ret'.detected[j].status \in {"haram", "conditional"}
        /\ \A i \in DOMAIN KnowledgeBefore :
             (StatusesOf(KnowledgeBefore[i], Val(call'.prefs)) \cap {"haram", "conditional"} = {})
               => \A j \in DOMAIN ret'.detected :
                    ret'.detected[j].normalizedName # KnowledgeBefore[i].key ]_vars

\* lard, conditional in the file, is halal under flexible preferences: the text
\* "lard" went through detection and nothing was detected
C21_Witness ==
  /\ call.op = "convertRecipe"
  /\ file = Some(DemoKnowledge)
  /\ call.text = S_lard
  /\ call.prefs = Some([NoPreferences EXCEPT !.strictnessLevel = "flexible"])
  /\ finalStatus(DemoKnowledge[4], S_lard, Val(call.prefs)) = "halal"
  /\ ret.ran = AllStages
  /\ ret.detected = <<>>

(***************************************************************************)
(* Properties of normalizeIngredientName, over SpecNormalize.              *)
(***************************************************************************)
\* C11: normalizing a normalized name changes nothing, and an empty or
\* non-string name normalizes to the empty string
C11_NormalizeIdempotent ==
  unitPc = "normalize" =>
    /\ unitOut.twice = unitOut.once
    /\ (unitIn.name = <<>> \/ ~IsString(unitIn.name)) => unitOut.once = <<>>

\* a name that normalization changes into a name that is not empty
C11_Witness ==
  /\ unitPc = "normalize"
  /\ unitIn.name = <<" ", "B", "-">>
  /\ unitOut.once = <<"b">>
  /\ unitOut.twice = <<"b">>

\* the characters the claim says normalization keeps
InClaimedClass(c) == c \in LowerSet \cup Digits \cup {"_"}

\* C12: a string is lower-cased, trimmed, has each white-space run replaced by
\* one underscore, and loses exactly the characters outside a-z, 0-9 and _
C12_NormalizeKeepsClass ==
  (unitPc = "normalize" /\ IsString(unitIn.name)) =>
    unitOut.once =
      SelectSeq(replaceSpaceRuns(trim(toLowerCase(unitIn.name))), InClaimedClass)

(***************************************************************************)
(* Properties of matching and replacement, over SpecMatch.                 *)
(***************************************************************************)
\* the term the one entry of the knowledge file is searched by
TheTerm == underscoresToSpaces(FileEntries[1].key)
\* term stands at position i of text, whatever the case of its letters, with
\* no word character right before it and none right after it
WholeWordAt(text, term, i) ==
  /\ i + Len(term) - 1 <= Len(text)
  /\ toLowerCase(SubSeq(text, i, i + Len(term) - 1)) = toLowerCase(term)
  /\ (i = 1 \/ ~IsWordChar(text[i - 1]))
  /\ (i + Len(term) > Len(text) \/ ~IsWordChar(text[i + Len(term)]))
WholeWordIn(text, term) == \E i \in DOMAIN text : WholeWordAt(text, term, i)
\* text from position i on, each whole-word occurrence of term met from left
\* to right replaced by alt and every other character kept
RECURSIVE WholeWordsReplaced(_, _, _, _)
WholeWordsReplaced(text, i, term, alt) ==
  IF i > Len(text) THEN <<>>
  ELSE IF WholeWordAt(text, term, i)
       THEN alt \o WholeWordsReplaced(text, i + Len(term), term, alt)
       ELSE <<text[i]>> \o WholeWordsReplaced(text, i + 1, term, alt)

\* C13: a term is detected exactly when it occurs as a whole word, whatever
\* its case, and only its whole-word occurrences are replaced: every other
\* character, the punctuation after an occurrence included, is kept
C13_WholeWord ==
  (call.op = "convertRecipe" /\ FileEntries # <<>> /\ ~IsBlank(call.text)) =>
    /\ ~ret.threw
    /\ (ret.detected # <<>>) <=> WholeWordIn(Trimmed(call.text), TheTerm)
    /\ toLowerCase(ret.result.convertedText) =
         WholeWordsReplaced(toLowerCase(Trimmed(call.text)), 1, TheTerm, MatchAlternative)

\* "Aa." matches term "aa" and keeps its full stop
C13_Witness ==
  /\ call.op = "convertRecipe"
  /\ FileEntries # <<>>
  /\ TheTerm = <<"a", "a">>
  /\ call.text = <<"A", "a", ".">>
  /\ ret.result.convertedText = <<"B", " ", "c", ".">>

\* the alternative in the case pattern the claim gives for a matched run
AllUpperCase(run) == (\E i \in DOMAIN run : IsUpper(run[i])) /\ (\A i \in DOMAIN run : ~IsLower(run[i]))
InCaseOf(run, alt) ==
  IF AllUpperCase(run) THEN toUpperCase(alt)
  ELSE IF IsUpper(run[1]) THEN <<UpperOf(alt[1])>> \o Tail(alt)
  ELSE alt
RECURSIVE WholeWordsRecased(_, _, _, _)
WholeWordsRecased(text, i, term, alt) ==
  IF i > Len(text) THEN <<>>
  ELSE IF WholeWordAt(text, term, i)
       THEN InCaseOf(SubSeq(text, i, i + Len(term) - 1), alt)
            \o WholeWordsRecased(text, i + Len(term), term, alt)
       ELSE <<text[i]>> \o WholeWordsRecased(text, i + 1, term, alt)

\* C14: each substituted occurrence carries the case pattern of the run it
\* replaces: all upper-case for an all upper-case run, first character
\* upper-case for a run whose first character is upper-case, unchanged otherwise
C14_CasePreserved ==
  (call.op = "convertRecipe" /\ FileEntries # <<>> /\ ~IsBlank(call.text)) =>
    ret.result.convertedText =
      WholeWordsRecased(Trimmed(call.text), 1, TheTerm, MatchAlternative)

(***************************************************************************)
(* Properties of the policy adjustment, over SpecPolicy.                   *)
(***************************************************************************)
\* the entry asked for, the tags it declares, the preferences of the call
\* and the status returned
RawStatus == FileEntries[1].status
DeclaredTags == Range(Val(FileEntries[1].tags))
Asked == call.op = "getIngredientDetails" /\ FileEntries # <<>>
FinalStatus == Val(ret.details).status
\* the school and the strictness level in force: the current field, else the
\* older one, else the default
School ==
  IF Val(call.prefs).schoolOfThought # "" THEN Val(call.prefs).schoolOfThought
  ELSE IF Val(call.prefs).madhab # "" THEN Val(call.prefs).madhab ELSE "no-preference"
Level ==
  IF Val(call.prefs).strictnessLevel # "" THEN Val(call.prefs).strictnessLevel
  ELSE IF Val(call.prefs).strictness # "" THEN Val(call.prefs).strictness ELSE "standard"
\* the cells of the two tables, "" for a row or a cell the table does not have
SchoolCell ==
  IF School \in DOMAIN HALAL_RULES.madhab
  THEN HALAL_RULES.madhab[School].seafood_shellfish ELSE ""
LevelCell(tag) ==
  IF Level \in DOMAIN HALAL_RULES.strictness THEN HALAL_RULES.strictness[Level][tag] ELSE ""
\* a status after one strictness cell
Applied(status, cell) ==
  IF cell \in {"", "conditional"} THEN status
  ELSE IF cell = "questionable" THEN "conditional" ELSE cell
\* the statuses the strictness table alone allows for the entry
ByStrictness ==
  LET g == IF "gelatin_unknown" \in DeclaredTags THEN LevelCell("gelatin_unknown") ELSE ""
      a == IF "alcohol_trace" \in DeclaredTags THEN LevelCell("alcohol_trace") ELSE ""
  IN  { Applied(Applied(RawStatus, g), a), Applied(Applied(RawStatus, a), g) }
\* the school rule has a cell to apply to the entry
SchoolApplies ==
  /\ School # "no-preference"
  /\ "seafood_shellfish" \in DeclaredTags
  /\ SchoolCell # ""

\* C16: for a conditional or unknown entry tagged seafood_shellfish and a
\* school other than no-preference, the final status is the school's cell
\* whatever the strictness rules gave; with schoolOfThought no-preference the
\* school table is not applied
C16_SchoolOverrides ==
  (Asked /\ RawStatus \in {"conditional", "unknown"}) =>
    /\ SchoolApplies => FinalStatus = SchoolCell
    /\ Val(call.prefs).schoolOfThought = "no-preference" => FinalStatus \in ByStrictness

\* the school cell replaced what the strictness rule had given
C16_Witness ==
  /\ Asked
  /\ RawStatus = "conditional"
  /\ DeclaredTags = {"gelatin_unknown", "seafood_shellfish"}
  /\ Val(call.prefs).schoolOfThought = "hanafi"
  /\ Level = "flexible"
  /\ FinalStatus = "haram"

\* C17: an entry of raw status haram or halal keeps its status, whatever its
\* tags and the preferences
C17_PassThrough ==
  (Asked /\ RawStatus \in {"haram", "halal"}) => FinalStatus = RawStatus

\* a halal entry with all three tags under a strict level and a school
C17_Witness ==
  /\ Asked
  /\ RawStatus = "halal"
  /\ Cardinality(DeclaredTags) = 3
  /\ Level = "strict"
  /\ School = "hanafi"
  /\ FinalStatus = "halal"

\* C18: for a conditional or unknown entry the cell of the strictness table
\* for the level in force and a tag of the entry becomes the status, except
\* that "conditional" changes nothing and "questionable" gives conditional; a
\* level or a cell the table lacks changes nothing
C18_StrictnessRule ==
  (Asked /\ RawStatus \in {"conditional", "unknown"} /\ ~SchoolApplies) =>
    /\ FinalStatus \in ByStrictness
    /\ (Level \notin DOMAIN HALAL_RULES.strictness) => FinalStatus = RawStatus

\* an unknown entry became conditional through a "questionable" cell
C18_Witness ==
  /\ Asked
  /\ RawStatus = "unknown"
  /\ DeclaredTags = {"gelatin_unknown"}
  /\ Level = "standard"
  /\ FinalStatus = "conditional"

(***************************************************************************)
(* Properties of detection on one entry, over SpecDetect.                  *)
(***************************************************************************)
\* the entry of the file, and whether the engine gives it a reported status
\* whichever of its terms it is asked by
TheEntry == FileEntries[1]
IsReportedEntry ==
  StatusesOf(TheEntry, NoPreferences) \subseteq {"haram", "conditional"}

\* C22: detection is complete: when the entry has final status haram or
\* conditional and its key or an alias, underscores read as blanks, occurs in
\* the text as a whole word, the detect call returns a Detection for the entry
C22_DetectionComplete ==
  (call.op = "convertRecipe" /\ ~IsBlank(call.text)) =>
    ((IsReportedEntry /\ \E term \in TermsOf(TheEntry) : Occurs(Trimmed(call.text), term))
       => \E j \in DOMAIN ret.detected : ret.detected[j].normalizedName = TheEntry.key)

(***************************************************************************)
(* Properties of convertIngredients, over SpecConvert.                     *)
(***************************************************************************)
\* the detections handed over, and what the converter made of the first k
Items == unitIn.detectedIngredients
After(k) == convertIngredients(unitIn.recipeText, SubSeq(Items, 1, k))
\* the first alternative of a detection is there and not blank
NotBlank(item) == ~IsNull(item.replacement) /\ trim(Val(item.replacement)) # <<>>
\* ... and is not the placeholder either
Usable(item) == NotBlank(item) /\ Val(item.replacement) # HalalAlternativeNeeded
\* the term of detection k occurs in the text as the earlier detections left it
StillThere(k) == Occurs(After(k - 1).convertedText, Items[k].ingredient)

AsReplacement(item) ==
  [original |-> item.ingredient, replacement |-> Val(item.replacement), status |-> item.status]
AsUnresolved(item) == [ingredient |-> item.ingredient, status |-> item.status]
\* the detections numbered in chosen, in detection order
RECURSIVE Pick(_, _)
Pick(k, chosen) ==
  IF k = 0 THEN <<>>
  ELSE Pick(k - 1, chosen) \o (IF k \in chosen THEN <<Items[k]>> ELSE <<>>)
Sorted(chosen, shape(_)) ==
  AsSeq([i \in DOMAIN Pick(Len(Items), chosen) |-> shape(Pick(Len(Items), chosen)[i])])

\* C23 as stated: a detection is in replacements exactly when its first
\* alternative is not blank and its term still occurs in the text as modified
\* so far, and in unresolved otherwise, both in detection order
C23_ReplacedIffNotBlank ==
  unitPc = "convert" =>
    LET replaced == { k \in DOMAIN Items : NotBlank(Items[k]) /\ StillThere(k) } IN
    /\ unitOut.replacements = Sorted(replaced, AsReplacement)
    /\ unitOut.unresolved = Sorted(DOMAIN Items \ replaced, AsUnresolved)

\* C23, amended: a detection is in replacements exactly when its first
\* alternative is not blank, is not the placeholder "Halal alternative needed"
\* and its term still occurs in the text as modified so far; otherwise it is in
\* unresolved with its status; both lists are in detection order
C23_ReplacedIffUsable ==
  unitPc = "convert" =>
    LET replaced == { k \in DOMAIN Items : Usable(Items[k]) /\ StillThere(k) } IN
    /\ unitOut.replacements = Sorted(replaced, AsReplacement)
    /\ unitOut.unresolved = Sorted(DOMAIN Items \ replaced, AsUnresolved)

\* in "a x", a was replaced by b and the term "a x", which has an alternative,
\* was no longer there: it is unresolved
C23_Witness ==
  /\ unitPc = "convert"
  /\ unitIn.recipeText = T_a_x
  /\ Len(Items) = 2
  /\ Items[1].ingredient = T_a /\ Items[1].replacement = Some(<<"b">>)
  /\ Items[2].ingredient = T_a_x /\ Usable(Items[2])
  /\ Len(unitOut.replacements) = 1
  /\ unitOut.unresolved = <<AsUnresolved(Items[2])>>

\* C24: a detection without a usable replacement leaves convertedText as it
\* was: processing it adds one entry to unresolved and changes nothing else,
\* and when no detection has a usable replacement convertedText is the input
C24_UnusableLeavesText ==
  unitPc = "convert" =>
    /\ \A k \in DOMAIN Items :
         ~Usable(Items[k]) =>
           /\ After(k).convertedText = After(k - 1).convertedText
           /\ After(k).replacements = After(k - 1).replacements
           /\ After(k).unresolved = Append(After(k - 1).unresolved, AsUnresolved(Items[k]))
    /\ unitOut = After(Len(Items))
    /\ (\A k \in DOMAIN Items : ~Usable(Items[k])) => unitOut.convertedText = unitIn.recipeText

\* two detections, one with a blank alternative and one with none, went
\* through the converter: the text is the input and both are unresolved
C24_Witness ==
  /\ unitPc = "convert"
  /\ Len(Items) = 2
  /\ Items[1].replacement = Some(<<" ">>)
  /\ Items[2].replacement = Null
  /\ unitOut.convertedText = unitIn.recipeText
  /\ Len(unitOut.unresolved) = 2
  /\ unitOut.replacements = <<>>

\* C30 as stated: when the scorer returns 100 the unresolved list is empty
C30_PerfectMeansNothingLeft ==
  (unitPc = "convert" /\ scorerOut = Some(100)) => unitOut.unresolved = <<>>

\* C30, amended: when the scorer returns 100 no haram ingredient is left
\* unresolved, and if anything is left unresolved it is conditional and a haram
\* ingredient was replaced
C30_PerfectMeansNoHaramLeft ==
  (unitPc = "convert" /\ scorerOut = Some(100)) =>
    /\ \A j \in DOMAIN unitOut.unresolved : unitOut.unresolved[j].status = "conditional"
    /\ unitOut.unresolved # <<>> =>
         \E j \in DOMAIN unitOut.replacements : unitOut.replacements[j].status = "haram"

\* the scorer returned 100 for a conversion that replaced a haram ingredient
\* and left a conditional one unresolved
C30_Witness ==
  /\ unitPc = "convert"
  /\ scorerOut = Some(100)
  /\ Len(unitOut.unresolved) = 1
  /\ unitOut.unresolved[1].status = "conditional"
  /\ Len(unitOut.replacements) = 1
  /\ unitOut.replacements[1].status = "haram"

====
